---- MODULE Spec2Model ----
(***************************************************************************)
(* Model of DiceAnalysisSystem (src/script.js): the round log `games`, its *)
(* copy in localStorage, the form handler, the clear handler, the page     *)
(* reload (constructor), and the analytics and prediction queries.         *)
(*                                                                         *)
(* JavaScript numbers that the program handles are integers, NaN (what     *)
(* parseInt yields for text with no leading number) and null (what         *)
(* JSON.stringify writes for NaN).  A value is a record [k, n] whose k     *)
(* tells the three apart.  Fractions occur only inside predictNextOutcome  *)
(* and getStateTransitionProbability; they are computed exactly, as        *)
(* numerators over a common positive denominator.                          *)
(*                                                                         *)
(* A round's id (Date.now()) is left out: no operation reads it.  Its      *)
(* timestamp is kept as the kind of value it is (a Date in memory, a       *)
(* string once it has been through JSON).                                  *)
(***************************************************************************)
EXTENDS Integers, Sequences, FiniteSets, TLC

VARIABLES games, storage, outcome, roll, state

vars == <<games, storage, outcome, roll, state>>

(***************************************************************************)
(* JavaScript values                                                       *)
(***************************************************************************)
Num(n) == [k |-> "number", n |-> n]

NaN == [k |-> "NaN", n |-> 0]

Null == [k |-> "null", n |-> 0]

IsNum(v) == v.k = "number"

\* ToNumber: null converts to 0; NaN stays NaN (callers test IsNaN first).
IsNaN(v) == v.k = "NaN"

ToNumber(v) == IF v.k = "number" THEN v.n ELSE 0

\* Relational operators: any comparison with NaN is false.
JsLt(v, c) == ~IsNaN(v) /\ ToNumber(v) < c

JsGt(v, c) == ~IsNaN(v) /\ ToNumber(v) > c

JsLe(v, c) == ~IsNaN(v) /\ ToNumber(v) <= c

JsGe(v, c) == ~IsNaN(v) /\ ToNumber(v) >= c

\* a - b on values: NaN if either operand is NaN.
JsSub(a, b) == IF IsNaN(a) \/ IsNaN(b) THEN NaN ELSE Num(ToNumber(a) - ToNumber(b))

(***************************************************************************)
(* parseInt on a field's text (a sequence of characters): leading white    *)
(* space is skipped, then an optional sign, then an optional 0x prefix,    *)
(* then the longest run of digits of the radix; no digit gives NaN.        *)
(***************************************************************************)
HexChars == <<"0", "1", "2", "3", "4", "5", "6", "7", "8", "9",
              "a", "b", "c", "d", "e", "f">>

IsDigit(c, radix) == \E d \in 1..radix : HexChars[d] = c

DigitVal(c) == (CHOOSE d \in 1..16 : HexChars[d] = c) - 1

RECURSIVE StripLeft(_)
StripLeft(s) == IF s # <<>> /\ Head(s) = " " THEN StripLeft(Tail(s)) ELSE s

RECURSIVE ParseDigits(_, _, _, _)
ParseDigits(s, radix, acc, seen) ==
    IF s # <<>> /\ IsDigit(Head(s), radix)
    THEN ParseDigits(Tail(s), radix, acc * radix + DigitVal(Head(s)), TRUE)
    ELSE [seen |-> seen, value |-> acc]

parseInt(text) ==
    LET s0    == StripLeft(text)
        neg   == s0 # <<>> /\ Head(s0) = "-"
        s1    == IF s0 # <<>> /\ Head(s0) \in {"+", "-"} THEN Tail(s0) ELSE s0
        hex   == Len(s1) >= 2 /\ s1[1] = "0" /\ s1[2] \in {"x", "X"}
        s2    == IF hex THEN Tail(Tail(s1)) ELSE s1
        r     == ParseDigits(s2, IF hex THEN 16 ELSE 10, 0, FALSE)
    IN  IF r.seen THEN Num(IF neg THEN 0 - r.value ELSE r.value) ELSE NaN

(***************************************************************************)
(* Classifier and trend                                                    *)
(***************************************************************************)
States == <<"LOW", "MID", "HIGH", "EXTREME">>

StateSet == {States[i] : i \in 1..Len(States)}

getState_lowEdge(r) ==
    IF JsGe(r, 6) /\ JsLt(r, 18) THEN "LOW"
    ELSE IF JsGe(r, 19) /\ JsLe(r, 31) THEN "MID"
    ELSE IF JsGe(r, 32) /\ JsLe(r, 43) THEN "HIGH"
    ELSE IF JsGe(r, 44) /\ JsLe(r, 54) THEN "EXTREME"
    ELSE "UNKNOWN"

getState(r) ==
    IF JsGe(r, 6) /\ JsLe(r, 18) THEN "LOW"
    ELSE IF JsGe(r, 19) /\ JsLe(r, 31) THEN "MID"
    ELSE IF JsGe(r, 32) /\ JsLe(r, 43) THEN "HIGH"
    ELSE IF JsGe(r, 44) /\ JsLe(r, 54) THEN "EXTREME"
    ELSE "UNKNOWN"

getClassification_below31(r) == IF JsLt(r, 31) THEN "KECIL" ELSE "BESAR"

getClassification(r) == IF JsLe(r, 31) THEN "KECIL" ELSE "BESAR"

calculateTrend(roll1, roll2) ==
    LET diff == JsSub(roll2, roll1)
    IN  IF JsGt(diff, 0) THEN [direction |-> "naik", diff |-> diff]
        ELSE IF JsLt(diff, 0) THEN [direction |-> "turun", diff |-> diff]
        ELSE [direction |-> "stabil", diff |-> diff]

(***************************************************************************)
(* Round records and the JSON round trip                                   *)
(***************************************************************************)
\* The object literal of handleFormSubmit.
newGame(roll1, roll2) ==
    [roll1          |-> roll1,
     roll2          |-> roll2,
     state1         |-> getState(roll1),
     state2         |-> getState(roll2),
     trend          |-> calculateTrend(roll1, roll2),
     classification |-> getClassification(roll2),
     timestamp      |-> "Date"]

\* JSON.stringify of one value: NaN is written as null.
stringifyNumber(v) == IF IsNaN(v) THEN Null ELSE v

\* JSON.stringify of one round: numbers as above, a Date as its ISO string,
\* strings as themselves.
stringifyGame(game) ==
    [game EXCEPT !.roll1      = stringifyNumber(@),
                 !.roll2      = stringifyNumber(@),
                 !.trend.diff = stringifyNumber(@),
                 !.timestamp  = "string"]

\* localStorage: the key is absent, or holds the JSON text of an array.  The
\* text is kept as the tree JSON.parse will yield from it.
StorageAbsent == [present |-> FALSE, items |-> <<>>]

stringify(g) == [present |-> TRUE, items |-> [i \in 1..Len(g) |-> stringifyGame(g[i])]]

\* stored ? JSON.parse(stored) : []
loadFromLocalStorage(st) == IF st.present THEN st.items ELSE <<>>

(***************************************************************************)
(* Analytics: numeric trend                                                *)
(***************************************************************************)
maxMemoryWindow == 20

Max(a, b) == IF a >= b THEN a ELSE b

getRecentGames_offByOne(g, count) == SubSeq(g, Max(1, Len(g) - count), Len(g))

\* this.games.slice(-count), count > 0
getRecentGames(g, count) == SubSeq(g, Max(1, Len(g) - count + 1), Len(g))

RECURSIVE TrendLoop(_, _)
TrendLoop(w, acc) ==
    IF w = <<>> THEN acc
    ELSE LET d == Head(w).trend.direction
         IN  TrendLoop(Tail(w),
                 IF d = "naik" THEN [acc EXCEPT !.upCount = @ + 1]
                 ELSE IF d = "turun" THEN [acc EXCEPT !.downCount = @ + 1]
                 ELSE [acc EXCEPT !.stableCount = @ + 1])

analyzeTrendDirection(g) ==
    IF Len(g) = 0
    THEN [kind |-> "null", upCount |-> 0, downCount |-> 0, stableCount |-> 0]
    ELSE TrendLoop(getRecentGames(g, maxMemoryWindow),
                   [kind |-> "counts", upCount |-> 0, downCount |-> 0, stableCount |-> 0])

getTrendDominant(g) ==
    LET t == analyzeTrendDirection(g)
    IN  IF t.kind = "null" THEN "-"
        ELSE IF t.upCount > t.downCount /\ t.upCount > t.stableCount THEN "Naik"
        ELSE IF t.downCount > t.upCount /\ t.downCount > t.stableCount THEN "Turun"
        ELSE "Stabil"

(***************************************************************************)
(* Analytics: state transitions                                            *)
(*                                                                         *)
(* A matrix is [kind, cell, nanKey].  kind is "null" (fewer than 2         *)
(* rounds), "matrix", or "TypeError" (the call threw).  cell holds the 16  *)
(* counters.  matrix[from]['UNKNOWN']++ on a key that does not exist       *)
(* creates that key with value NaN: nanKey[from] records it.               *)
(***************************************************************************)
ZeroMatrix(kind) ==
    [kind   |-> kind,
     cell   |-> [from \in StateSet |-> [to \in StateSet |-> 0]],
     nanKey |-> [from \in StateSet |-> FALSE]]

\* One pass of the body of the for loop, at 1-based index i (i-1 and i are
\* the code's games[i-1] and games[i]).
MatrixStep(g, i, m) ==
    LET fromState == g[i - 1].state2
        toState   == g[i].state1
    IN  IF m.kind = "TypeError" THEN m
        ELSE IF fromState \notin StateSet THEN ZeroMatrix("TypeError")
        ELSE IF toState \notin StateSet THEN [m EXCEPT !.nanKey[fromState] = TRUE]
        ELSE [m EXCEPT !.cell[fromState][toState] = @ + 1]

RECURSIVE MatrixLoop(_, _, _)
MatrixLoop(g, i, m) ==
    IF i > Len(g) THEN m ELSE MatrixLoop(g, i + 1, MatrixStep(g, i, m))

buildTransitionMatrix_skipFirst(g) ==
    IF Len(g) < 2 THEN ZeroMatrix("null")
    ELSE MatrixLoop(g, 3, ZeroMatrix("matrix"))

buildTransitionMatrix(g) ==
    IF Len(g) < 2 THEN ZeroMatrix("null")
    ELSE MatrixLoop(g, 2, ZeroMatrix("matrix"))

\* Math.round(num / den) for den > 0: the nearest integer, halves upwards.
MathRound(num, den) == (2 * num + den) \div (2 * den)

\* Object.values(transitions).reduce((a, b) => a + b, 0), NaN key aside
RECURSIVE RowTotal(_, _)
RowTotal(row, i) == IF i > Len(States) THEN 0 ELSE row[States[i]] + RowTotal(row, i + 1)

ZeroProbability(kind, nan) ==
    [kind |-> kind, nan |-> nan, p |-> [to \in StateSet |-> 0]]

getStateTransitionProbability_truncating(g, fromState) ==
    LET matrix == buildTransitionMatrix(g)
    IN  IF matrix.kind = "TypeError" THEN ZeroProbability("TypeError", FALSE)
        ELSE IF matrix.kind = "null" THEN ZeroProbability("null", FALSE)
        ELSE IF fromState \notin StateSet THEN ZeroProbability("TypeError", FALSE)
        ELSE LET transitions == matrix.cell[fromState]
                 total       == RowTotal(transitions, 1)
             IN  IF matrix.nanKey[fromState] THEN ZeroProbability("probability", TRUE)
                 ELSE IF total = 0 THEN ZeroProbability("null", FALSE)
                 ELSE [kind |-> "probability", nan |-> FALSE,
                       p |-> [to \in StateSet |-> (transitions[to] * 100) \div total]]

\* Result kinds: "null", "probability", "TypeError".  With a NaN key in the
\* row the total is NaN, which is not === 0, and every percentage is NaN
\* (nan = TRUE).  Object.values(matrix[fromState]) throws when fromState is
\* not a key of the matrix.
getStateTransitionProbability(g, fromState) ==
    LET matrix == buildTransitionMatrix(g)
    IN  IF matrix.kind = "TypeError" THEN ZeroProbability("TypeError", FALSE)
        ELSE IF matrix.kind = "null" THEN ZeroProbability("null", FALSE)
        ELSE IF fromState \notin StateSet THEN ZeroProbability("TypeError", FALSE)
        ELSE LET transitions == matrix.cell[fromState]
                 total       == RowTotal(transitions, 1)
             IN  IF matrix.nanKey[fromState] THEN ZeroProbability("probability", TRUE)
                 ELSE IF total = 0 THEN ZeroProbability("null", FALSE)
                 ELSE [kind |-> "probability", nan |-> FALSE,
                       p |-> [to \in StateSet |-> MathRound(transitions[to] * 100, total)]]

(***************************************************************************)
(* Analytics: classification frequency, state dominance, last state        *)
(***************************************************************************)
RECURSIVE FrequencyLoop(_, _)
FrequencyLoop(w, acc) ==
    IF w = <<>> THEN acc
    ELSE FrequencyLoop(Tail(w),
             IF Head(w).classification = "KECIL"
             THEN [acc EXCEPT !.KECIL = @ + 1]
             ELSE [acc EXCEPT !.BESAR = @ + 1])

getClassificationFrequency(g) ==
    IF Len(g) = 0 THEN [KECIL |-> 0, BESAR |-> 0]
    ELSE FrequencyLoop(getRecentGames(g, maxMemoryWindow), [KECIL |-> 0, BESAR |-> 0])

\* stateCounts[game.state2]++ : as in the matrix, an UNKNOWN state2 creates a
\* key UNKNOWN with value NaN (nanKey).
RECURSIVE DominanceLoop(_, _)
DominanceLoop(w, acc) ==
    IF w = <<>> THEN acc
    ELSE DominanceLoop(Tail(w),
             IF Head(w).state2 \in StateSet
             THEN [acc EXCEPT !.count[Head(w).state2] = @ + 1]
             ELSE [acc EXCEPT !.nanKey = TRUE])

\* kind "empty" is the {} of an empty log, "counts" the four counters.
getStateDominance(g) ==
    IF Len(g) = 0
    THEN [kind |-> "empty", count |-> [s \in StateSet |-> 0], nanKey |-> FALSE]
    ELSE DominanceLoop(getRecentGames(g, maxMemoryWindow),
             [kind |-> "counts", count |-> [s \in StateSet |-> 0], nanKey |-> FALSE])

getLastState(g) == IF Len(g) = 0 THEN "null" ELSE g[Len(g)].state2

(***************************************************************************)
(* Prediction                                                              *)
(*                                                                         *)
(* The weights are written in hundredths (0.25 is 25), the inner trend     *)
(* factor in tenths (0.6 is 6).  With W the total of the state-dominance   *)
(* counters and N the length of the log, every score of the code is an     *)
(* integer multiple of 1 / (ScoreUnit * W * N); the components below are   *)
(* those integers.                                                         *)
(***************************************************************************)
minGamesToPredict == 5

trendWeight == 25

trendFactor == 6

stateWeight == 30

transitionWeight == 25

centerWeight == 20

CENTER == 30

maxDistance == 24

\* The least common denominator of the four weights' unit fractions
\* (3/20, 3/10, 1/400, 1/120).
ScoreUnit == 3 * 400

Abs(x) == IF x < 0 THEN 0 - x ELSE x

\* Object.values(stateDominance).reduce((a, b) => a + b, 0), NaN key aside
totalStateCount(g) == RowTotal(getStateDominance(g).count, 1)

\* this.games.reduce((sum, g) => sum + g.roll2, 0); null adds as 0.  With a
\* NaN roll2 in a log of 5 or more rounds the call has thrown before this.
RECURSIVE SumRoll2(_)
SumRoll2(g) == IF g = <<>> THEN 0 ELSE ToNumber(Head(g).roll2) + SumRoll2(Tail(g))

\* 1. Numeric trend: trendWeight * 0.6 to one side.
trendComponent(g) ==
    LET trendAnalysis == analyzeTrendDirection(g)
        amount == ((trendWeight * trendFactor * ScoreUnit) \div 1000)
                      * totalStateCount(g) * Len(g)
    IN  IF trendAnalysis.downCount > trendAnalysis.upCount
        THEN [kecil |-> amount, besar |-> 0]
        ELSE [kecil |-> 0, besar |-> amount]

\* 2. State dominance: stateWeight * ((LOW + MID) / total || 0) and the
\* same for HIGH + EXTREME; a NaN or 0 total gives NaN, which || turns to 0.
stateComponent(g) ==
    LET stateDominance == getStateDominance(g)
        total == RowTotal(stateDominance.count, 1)
        unit  == (stateWeight * ScoreUnit) \div 100
    IN  IF stateDominance.nanKey \/ total = 0
        THEN [kecil |-> 0, besar |-> 0]
        ELSE [kecil |-> unit * (stateDominance.count["LOW"] + stateDominance.count["MID"])
                             * Len(g),
              besar |-> unit * (stateDominance.count["HIGH"] + stateDominance.count["EXTREME"])
                             * Len(g)]

\* 3. State transition: only if stateTransitionProb is not null; a NaN
\* percentage counts as 0 (|| 0).
transitionComponent(g) ==
    LET stateTransitionProb == getStateTransitionProbability(g, getLastState(g))
        unit == ((transitionWeight * ScoreUnit) \div 10000) * totalStateCount(g) * Len(g)
    IN  IF stateTransitionProb.kind # "probability" \/ stateTransitionProb.nan
        THEN [kecil |-> 0, besar |-> 0]
        ELSE [kecil |-> unit * (stateTransitionProb.p["LOW"] + stateTransitionProb.p["MID"]),
              besar |-> unit * (stateTransitionProb.p["HIGH"]
                                    + stateTransitionProb.p["EXTREME"])]

centerComponent_shortRange(g) ==
    LET sum    == SumRoll2(g)
        amount == ((centerWeight * ScoreUnit) \div (100 * 20)) * totalStateCount(g)
                      * (20 * Len(g) - Abs(sum - CENTER * Len(g)))
    IN  IF sum < CENTER * Len(g)
        THEN [kecil |-> amount, besar |-> 0]
        ELSE [kecil |-> 0, besar |-> amount]

\* 4. Distance from center: centerWeight * (1 - |avgRoll2 - CENTER| / maxDistance),
\* avgRoll2 = sum / N, to KECIL if avgRoll2 < CENTER and to BESAR otherwise.
centerComponent(g) ==
    LET sum    == SumRoll2(g)
        amount == ((centerWeight * ScoreUnit) \div (100 * maxDistance)) * totalStateCount(g)
                      * (maxDistance * Len(g) - Abs(sum - CENTER * Len(g)))
    IN  IF sum < CENTER * Len(g)
        THEN [kecil |-> amount, besar |-> 0]
        ELSE [kecil |-> 0, besar |-> amount]

\* The two running scores after the four components.
Scores(g) ==
    LET trend      == trendComponent(g)
        dominance  == stateComponent(g)
        transition == transitionComponent(g)
        center     == centerComponent(g)
    IN  [kecilScore |-> trend.kecil + dominance.kecil + transition.kecil + center.kecil,
         besarScore |-> trend.besar + dominance.besar + transition.besar + center.besar]

Prediction(kind, nan, kecilPercent, besarPercent) ==
    [kind |-> kind, canPredict |-> kind = "predicted", nan |-> nan,
     KECIL |-> kecilPercent, BESAR |-> besarPercent]

\* Normalization: Math.round((kecilScore / totalScore) * 100) and its
\* complement; a total of 0 makes the quotient 0/0, NaN.
Normalize(scores) ==
    LET totalScore   == scores.kecilScore + scores.besarScore
        kecilPercent == IF totalScore > 0
                        THEN MathRound(100 * scores.kecilScore, totalScore)
                        ELSE MathRound(0 - 100 * scores.kecilScore, 0 - totalScore)
    IN  IF totalScore = 0 THEN Prediction("predicted", TRUE, 0, 0)
        ELSE Prediction("predicted", FALSE, kecilPercent, 100 - kecilPercent)

predictNextOutcome_sixGames(g) ==
    IF Len(g) < minGamesToPredict + 1 THEN Prediction("cannot", FALSE, 0, 0)
    ELSE IF getStateTransitionProbability(g, getLastState(g)).kind = "TypeError"
    THEN Prediction("TypeError", FALSE, 0, 0)
    ELSE Normalize(Scores(g))

\* Result kinds: "cannot" (canPredict:false), "predicted", "TypeError" (the
\* call to getStateTransitionProbability threw).  nan: KECIL and BESAR are
\* NaN.
predictNextOutcome(g) ==
    IF Len(g) < minGamesToPredict THEN Prediction("cannot", FALSE, 0, 0)
    ELSE IF getStateTransitionProbability(g, getLastState(g)).kind = "TypeError"
    THEN Prediction("TypeError", FALSE, 0, 0)
    ELSE Normalize(Scores(g))

(***************************************************************************)
(* Render and the queries a caller can make                                *)
(***************************************************************************)
\* render() calls, in order, renderStats, renderTable, renderTrendChart,
\* renderTransitionMatrix and renderPrediction; it ends in an uncaught
\* TypeError exactly when buildTransitionMatrix or predictNextOutcome does.
\* (getStateTransitionProbability, called by renderTransitionMatrix for the
\* four keys of the matrix, throws only when buildTransitionMatrix does.)
renderThrows(g) ==
    \/ buildTransitionMatrix(g).kind = "TypeError"
    \/ predictNextOutcome(g).kind = "TypeError"

Queries == {"analyzeTrendDirection", "getTrendDominant", "buildTransitionMatrix",
            "getStateTransitionProbability", "getClassificationFrequency",
            "getStateDominance", "getLastState", "predictNextOutcome"}

\* Whether query q on log g ends in a thrown TypeError.  The loops of
\* analyzeTrendDirection, getClassificationFrequency and getStateDominance
\* and the reads of getTrendDominant and getLastState have no throwing step.
QueryThrows(q, g) ==
    CASE q = "buildTransitionMatrix" -> buildTransitionMatrix(g).kind = "TypeError"
      [] q = "getStateTransitionProbability" ->
             getStateTransitionProbability(g, getLastState(g)).kind = "TypeError"
      [] q = "predictNextOutcome" -> predictNextOutcome(g).kind = "TypeError"
      [] OTHER -> FALSE

(***************************************************************************)
(* Operations                                                              *)
(***************************************************************************)
Outcome(op, alerted, threw) == [op |-> op, alerted |-> alerted, threw |-> threw]

\* The submit handler on the texts of the two fields: parse, range check
\* (alert and return), push, saveToLocalStorage, render.
handleFormSubmit(text1, text2) ==
    LET roll1 == parseInt(text1)
        roll2 == parseInt(text2)
    IN  IF JsLt(roll1, 6) \/ JsGt(roll1, 54) \/ JsLt(roll2, 6) \/ JsGt(roll2, 54)
        THEN /\ outcome' = Outcome("submit", TRUE, FALSE)
             /\ UNCHANGED <<games, storage, roll, state>>
        ELSE /\ games' = Append(games, newGame(roll1, roll2))
             /\ storage' = stringify(games')
             /\ outcome' = Outcome("submit", FALSE, renderThrows(games'))
             /\ UNCHANGED <<roll, state>>

clearAllData_dropLast(confirmed) ==
    IF confirmed
    THEN /\ games' = SubSeq(games, 1, Len(games) - 1)
         /\ storage' = stringify(games')
         /\ outcome' = Outcome("clear", FALSE, renderThrows(games'))
         /\ UNCHANGED <<roll, state>>
    ELSE /\ outcome' = Outcome("clear", FALSE, FALSE)
         /\ UNCHANGED <<games, storage, roll, state>>

\* The click handler of clearBtn; confirmed is the answer to confirm().
clearAllData(confirmed) ==
    IF confirmed
    THEN /\ games' = <<>>
         /\ storage' = stringify(games')
         /\ outcome' = Outcome("clear", FALSE, renderThrows(games'))
         /\ UNCHANGED <<roll, state>>
    ELSE /\ outcome' = Outcome("clear", FALSE, FALSE)
         /\ UNCHANGED <<games, storage, roll, state>>

\* A page load: the constructor sets games to [], loads it from storage,
\* registers the handlers and renders.
Reload ==
    /\ games' = loadFromLocalStorage(storage)
    /\ outcome' = Outcome("reload", FALSE, renderThrows(games'))
    /\ UNCHANGED <<storage, roll, state>>

\* A caller of the analytics interface runs one query on the current log.
Query(q) ==
    /\ outcome' = Outcome(q, FALSE, QueryThrows(q, games))
    /\ UNCHANGED <<games, storage, roll, state>>

\* A caller classifies one roll.
Classify(r) ==
    /\ roll' = Num(r)
    /\ state' = getState(roll')
    /\ outcome' = Outcome("getState", FALSE, FALSE)
    /\ UNCHANGED <<games, storage>>

(***************************************************************************)
(* Inputs and bounds                                                       *)
(***************************************************************************)
\* The decimal text a user types for n >= 0.
RECURSIVE Typed(_)
Typed(n) ==
    IF n < 10 THEN <<HexChars[n + 1]>>
    ELSE Append(Typed(n \div 10), HexChars[(n % 10) + 1])

\* Field contents of the full system: empty, below, at and above the ends
\* of the range, text after a number, a negative number.
FieldTexts == {<<>>, Typed(5), Typed(54), Typed(55), <<" ", "6", ".", "5">>}

MaxLog == 3

\* Valid rounds (roll1, roll2) covering the four states, the three trend
\* directions and both classifications.
ValidPairs == {<<6, 18>>, <<31, 6>>, <<44, 54>>, <<19, 43>>, <<43, 43>>, <<30, 30>>}

MaxValidLog == 5

WindowPairs == {<<6, 18>>, <<54, 32>>, <<30, 30>>}

MaxStored == 19

MaxAppended == 3

RollMargin == 30

MaxClassLog == 2

(***************************************************************************)
(* Specifications                                                          *)
(***************************************************************************)
\* First visit: nothing stored; the constructor loads [] and renders.
Init ==
    /\ storage = StorageAbsent
    /\ games = loadFromLocalStorage(storage)
    /\ outcome = Outcome("init", FALSE, renderThrows(games))
    /\ roll = Num(0)
    /\ state = getState(roll)

Submit ==
    /\ Len(games) < MaxLog
    /\ \E text1 \in FieldTexts, text2 \in FieldTexts : handleFormSubmit(text1, text2)

Clear == \E confirmed \in BOOLEAN : clearAllData(confirmed)

Ask == \E q \in Queries : Query(q)

Next == Submit \/ Clear \/ Reload \/ Ask

\* The full system: any field contents, clears, reloads and queries.
Spec == Init /\ [][Next]_vars

SubmitValid ==
    /\ Len(games) < MaxValidLog
    /\ \E pair \in ValidPairs : handleFormSubmit(Typed(pair[1]), Typed(pair[2]))

NextValid == SubmitValid

\* Logs of valid rounds, built by submissions from the empty log.
SpecValid == Init /\ [][NextValid]_vars

\* A visit that finds a log saved by earlier visits: one round followed by
\* copies of another.
InitWindow ==
    /\ \E n \in 0..MaxStored, first \in WindowPairs, rest \in WindowPairs :
           storage = stringify([i \in 1..n |->
                         IF i = 1 THEN newGame(Num(first[1]), Num(first[2]))
                         ELSE newGame(Num(rest[1]), Num(rest[2]))])
    /\ games = loadFromLocalStorage(storage)
    /\ outcome = Outcome("reload", FALSE, renderThrows(games))
    /\ roll = Num(0)
    /\ state = getState(roll)

\* Rounds appended since the page was loaded still hold a Date.
SubmitWindow ==
    /\ Cardinality({i \in 1..Len(games) : games[i].timestamp = "Date"}) < MaxAppended
    /\ \E pair \in WindowPairs : handleFormSubmit(Typed(pair[1]), Typed(pair[2]))

NextWindow == SubmitWindow

\* Logs up to and beyond the window length, grown by submissions.
SpecWindow == InitWindow /\ [][NextWindow]_vars

Rolls == (0 - RollMargin)..(54 + RollMargin)

InitState ==
    /\ storage = StorageAbsent
    /\ games = <<>>
    /\ outcome = Outcome("init", FALSE, FALSE)
    /\ roll \in {Num(r) : r \in Rolls}
    /\ state = getState(roll)

NextState == \E r \in Rolls : Classify(r)

\* The classifier applied to integers in and around [6,54].
SpecState == InitState /\ [][NextState]_vars

\* A submission of any valid roll, typed into both fields.
SubmitRoll ==
    /\ Len(games) < MaxClassLog
    /\ \E r \in 6..54 : handleFormSubmit(Typed(r), Typed(r))

NextClass == SubmitRoll

\* Short logs whose rounds take every roll of [6,54].
SpecClass == Init /\ [][NextClass]_vars

(***************************************************************************)
(* Properties                                                              *)
(***************************************************************************)
ValidRoll(v) == IsNum(v) /\ v.n \in 6..54

AllValid(g) == \A i \in 1..Len(g) : ValidRoll(g[i].roll1) /\ ValidRoll(g[i].roll2)

\* C1: predictNextOutcome returns canPredict:false for every log of fewer
\* than 5 rounds; for every log of 5 or more valid rounds it returns
\* canPredict:true with KECIL and BESAR integers (not NaN) that sum to 100.
C1_PredictThreshold ==
    LET prediction == predictNextOutcome(games)
    IN  /\ Len(games) < 5 => prediction.kind = "cannot" /\ ~prediction.canPredict
        /\ (Len(games) >= 5 /\ AllValid(games)) =>
               /\ prediction.canPredict
               /\ ~prediction.nan
               /\ prediction.KECIL \in Int /\ prediction.BESAR \in Int
               /\ prediction.KECIL + prediction.BESAR = 100

\* A log of exactly 5 valid rounds has been submitted and is predicted with
\* both sides above 0.
C1_Witness ==
    /\ Len(games) = 5 /\ AllValid(games) /\ outcome.op = "submit"
    /\ LET prediction == predictNextOutcome(games)
       IN  prediction.canPredict /\ prediction.KECIL > 0 /\ prediction.BESAR > 0

\* C2 (as claimed): every round of the log has roll1 and roll2 that are
\* integers in [6,54], whatever was typed into the fields.
C2_RollsInRange == AllValid(games)

\* C3: a form submission, a clear or a query leaves the log unchanged, or
\* appends one round after the unchanged earlier rounds (accepted submission
\* only), or empties the log (confirmed clear only).
C3_AppendOnly ==
    [][ /\ outcome'.op \in Queries => games' = games
        /\ (outcome'.op = "submit" /\ outcome'.alerted) => games' = games
        /\ (outcome'.op = "submit" /\ ~outcome'.alerted) =>
               /\ Len(games') = Len(games) + 1
               /\ SubSeq(games', 1, Len(games)) = games
        /\ outcome'.op = "clear" => (games' = games \/ games' = <<>>)
      ]_vars

\* A second or third round has just been appended.
C3_Witness == Len(games) >= 2 /\ outcome.op = "submit" /\ ~outcome.alerted

\* C4: getState maps 6..18 to LOW, 19..31 to MID, 32..43 to HIGH, 44..54 to
\* EXTREME and every other integer to UNKNOWN.
C4_StateBands ==
    /\ state = "LOW" <=> roll.n \in 6..18
    /\ state = "MID" <=> roll.n \in 19..31
    /\ state = "HIGH" <=> roll.n \in 32..43
    /\ state = "EXTREME" <=> roll.n \in 44..54
    /\ state = "UNKNOWN" <=> roll.n \notin 6..54
    /\ state \in StateSet \cup {"UNKNOWN"}

\* The classifier has answered LOW for the band's upper end, 18.
C4_Witness == outcome.op = "getState" /\ roll = Num(18) /\ state = "LOW"

\* C5: for a log of n valid rounds buildTransitionMatrix is null when n < 2;
\* otherwise cell [s][t] is the number of i in 2..n (1-based) with round
\* i-1's state2 = s and round i's state1 = t, and the 16 cells sum to n-1.
C5_MatrixCounts ==
    LET matrix == buildTransitionMatrix(games)
        n      == Len(games)
        Hit(s, t, i) == games[i - 1].state2 = s /\ games[i].state1 = t
    IN  AllValid(games) =>
          /\ n < 2 => matrix.kind = "null"
          /\ n >= 2 =>
               /\ matrix.kind = "matrix"
               /\ \A s \in StateSet : ~matrix.nanKey[s]
               /\ \A s \in StateSet, t \in StateSet :
                      matrix.cell[s][t] = Cardinality({i \in 2..n : Hit(s, t, i)})
               /\ RowTotal([s \in StateSet |-> RowTotal(matrix.cell[s], 1)], 1) = n - 1

\* The log with state2 sequence LOW, HIGH, HIGH and state1 sequence LOW,
\* MID, HIGH: cells [LOW][MID] and [HIGH][HIGH] are 1.
C5_Witness ==
    /\ Len(games) = 3
    /\ <<games[1].state2, games[2].state2, games[3].state2>> = <<"LOW", "HIGH", "HIGH">>
    /\ <<games[1].state1, games[2].state1, games[3].state1>> = <<"LOW", "MID", "HIGH">>
    /\ buildTransitionMatrix(games).cell["LOW"]["MID"] = 1
    /\ buildTransitionMatrix(games).cell["HIGH"]["HIGH"] = 1

\* C6: analyzeTrendDirection, getClassificationFrequency and
\* getStateDominance count exactly the last min(n,20) rounds of the log, and
\* buildTransitionMatrix counts the n-1 transitions of the whole log; with
\* more than 20 rounds the aggregates are those of the log without its
\* oldest round, while the matrix still counts that round's transition.
C6_WindowAndFullLog ==
    LET n         == Len(games)
        k         == IF n <= 20 THEN n ELSE 20
        window    == (n - k + 1)..n
        trend     == analyzeTrendDirection(games)
        frequency == getClassificationFrequency(games)
        dominance == getStateDominance(games)
        matrix    == buildTransitionMatrix(games)
        older     == Tail(games)
    IN  /\ trend.kind = "null" <=> n = 0
        /\ dominance.kind = "empty" <=> n = 0
        /\ trend.upCount =
               Cardinality({i \in window : games[i].trend.direction = "naik"})
        /\ trend.downCount =
               Cardinality({i \in window : games[i].trend.direction = "turun"})
        /\ trend.stableCount =
               Cardinality({i \in window : games[i].trend.direction = "stabil"})
        /\ trend.upCount + trend.downCount + trend.stableCount = k
        /\ frequency.KECIL =
               Cardinality({i \in window : games[i].classification = "KECIL"})
        /\ frequency.BESAR =
               Cardinality({i \in window : games[i].classification = "BESAR"})
        /\ frequency.KECIL + frequency.BESAR = k
        /\ \A s \in StateSet :
               dominance.count[s] = Cardinality({i \in window : games[i].state2 = s})
        /\ RowTotal(dominance.count, 1) = k
        /\ matrix.kind = "null" <=> n < 2
        /\ matrix.kind # "null" =>
             /\ matrix.kind = "matrix"
             /\ \A s \in StateSet, t \in StateSet :
                    matrix.cell[s][t] =
                        Cardinality({i \in 2..n : games[i - 1].state2 = s
                                                   /\ games[i].state1 = t})
             /\ RowTotal([s \in StateSet |-> RowTotal(matrix.cell[s], 1)], 1) = n - 1
        /\ n > 20 =>
             /\ trend = analyzeTrendDirection(older)
             /\ frequency = getClassificationFrequency(older)
             /\ dominance = getStateDominance(older)
             /\ matrix.cell[games[1].state2][games[2].state1] =
                    buildTransitionMatrix(older).cell[games[1].state2][games[2].state1] + 1

\* The 21st round has just been appended; the oldest round is the only
\* rising, KECIL, LOW one, and the aggregates no longer count it.
C6_Witness ==
    /\ Len(games) = 21 /\ outcome.op = "submit" /\ ~outcome.alerted
    /\ games[1].trend.direction = "naik" /\ games[1].state2 = "LOW"
    /\ analyzeTrendDirection(games).upCount = 0
    /\ getStateDominance(games).count["LOW"] = 0
    /\ buildTransitionMatrix(games).cell["LOW"][games[2].state1] >= 1

\* C7: getStateTransitionProbability(fromState) is null exactly when the
\* matrix is null or no transition leaves fromState; otherwise each of the
\* four percentages is the integer nearest to 100 * count / rowTotal (halves
\* upwards), each cell on its own.
C7_IndependentRounding ==
    LET n == Len(games)
    IN  \A s \in StateSet :
          LET probability == getStateTransitionProbability(games, s)
              rowTotal    == Cardinality({i \in 2..n : games[i - 1].state2 = s})
          IN  /\ probability.kind \in {"null", "probability"}
              /\ probability.kind = "null" <=> (n < 2 \/ rowTotal = 0)
              /\ probability.kind = "probability" =>
                   /\ ~probability.nan
                   /\ \A t \in StateSet :
                        LET count == Cardinality({i \in 2..n : games[i - 1].state2 = s
                                                               /\ games[i].state1 = t})
                            twice == 2 * rowTotal * probability.p[t]
                        IN  /\ twice - rowTotal <= 200 * count
                            /\ 200 * count < twice + rowTotal

\* From HIGH the log has one transition each to MID, HIGH and EXTREME: the
\* row is 0, 33, 33, 33, which sums to 99.
C7_Witness ==
    LET probability == getStateTransitionProbability(games, "HIGH")
    IN  /\ Len(games) = 4
        /\ probability.kind = "probability"
        /\ probability.p["LOW"] = 0 /\ probability.p["MID"] = 33
        /\ probability.p["HIGH"] = 33 /\ probability.p["EXTREME"] = 33

\* C8 (as claimed): on every reachable log no analytics query ends in a
\* thrown failure.
C8_NoThrownFailure == \A q \in Queries : ~QueryThrows(q, games)

\* C9: for every log of 5 or more valid rounds each of the four components
\* adds a non-negative amount to each score, the total score is positive,
\* and KECIL and BESAR lie in 0..100.
C9_ScoresNonNegative ==
    (Len(games) >= 5 /\ AllValid(games)) =>
        LET components == {trendComponent(games), stateComponent(games),
                           transitionComponent(games), centerComponent(games)}
            scores     == Scores(games)
            prediction == predictNextOutcome(games)
        IN  /\ \A c \in components : c.kecil >= 0 /\ c.besar >= 0
            /\ scores.kecilScore + scores.besarScore > 0
            /\ prediction.kind = "predicted" /\ ~prediction.nan
            /\ prediction.KECIL \in 0..100
            /\ prediction.BESAR \in 0..100

\* Five rounds with roll2 = 54: the average is at the largest distance, 24,
\* and the distance component adds exactly 0.
C9_Witness ==
    /\ Len(games) >= 5 /\ AllValid(games)
    /\ SumRoll2(games) = 54 * Len(games)
    /\ centerComponent(games) = [kecil |-> 0, besar |-> 0]
    /\ predictNextOutcome(games).canPredict

\* What a reload reads: the claim's six fields of each round.
ClaimedFields(g) ==
    [i \in 1..Len(g) |->
        [roll1 |-> g[i].roll1, roll2 |-> g[i].roll2, state1 |-> g[i].state1,
         state2 |-> g[i].state2, trend |-> g[i].trend,
         classification |-> g[i].classification]]

\* C10 (as claimed): whenever an operation has completed, the log a reload
\* would read from storage has the same rounds, in the same order and with
\* the same roll1, roll2, state1, state2, trend and classification, as the
\* log in memory.
C10_ReloadRestoresLog ==
    ClaimedFields(loadFromLocalStorage(storage)) = ClaimedFields(games)

\* C11: for every roll in [6,54] the classification is KECIL exactly when
\* the state is LOW or MID and BESAR exactly when it is HIGH or EXTREME;
\* hence on a non-empty log of valid rounds getClassificationFrequency's
\* KECIL is LOW + MID of getStateDominance and its BESAR is HIGH + EXTREME.
C11_ClassificationFollowsState ==
    LET frequency == getClassificationFrequency(games)
        dominance == getStateDominance(games)
    IN  /\ \A i \in 1..Len(games) :
             ValidRoll(games[i].roll2) =>
               /\ games[i].classification = getClassification(games[i].roll2)
               /\ games[i].state2 = getState(games[i].roll2)
               /\ games[i].classification = "KECIL" <=> games[i].state2 \in {"LOW", "MID"}
               /\ games[i].classification = "BESAR" <=>
                      games[i].state2 \in {"HIGH", "EXTREME"}
        /\ (Len(games) >= 1 /\ AllValid(games)) =>
               /\ dominance.kind = "counts" /\ ~dominance.nanKey
               /\ frequency.KECIL = dominance.count["LOW"] + dominance.count["MID"]
               /\ frequency.BESAR = dominance.count["HIGH"] + dominance.count["EXTREME"]

\* The two rounds either side of the split, roll2 = 31 (MID, KECIL) and
\* roll2 = 32 (HIGH, BESAR), have been submitted and counted once each.
C11_Witness ==
    /\ Len(games) = 2 /\ outcome.op = "submit"
    /\ games[1].roll2 = Num(31) /\ games[2].roll2 = Num(32)
    /\ getClassificationFrequency(games) = [KECIL |-> 1, BESAR |-> 1]
    /\ getStateDominance(games).count["MID"] = 1
    /\ getStateDominance(games).count["HIGH"] = 1

====
